---- MODULE Spec2Model ----
(***************************************************************************)
(* SEO Analyzer: the sitemap resolver (sitemap_parser.py) and the result   *)
(* aggregation pipeline of main (main.py).                                  *)
(*                                                                         *)
(* A Python str is a sequence of one-character strings, so that strip(),   *)
(* comparison and sorting are computed, not assumed.                       *)
(***************************************************************************)
EXTENDS Naturals, Sequences, FiniteSets

VARIABLES
    \* SitemapParser.parse_sitemap / get_all_urls
    ppc,                \* position: "call", "loop", "sort", "done", "crashed"
    callArg,            \* the argument of the pending parse_sitemap_recursive call
    stack,              \* frames of parse_sitemap_recursive inside the index loop
    all_urls,           \* the accumulator set
    visited_sitemaps,   \* the visited set
    urls_result,        \* what get_all_urls returns
    hist,               \* history of the documents served by session.get
    \* SitemapParser.find_sitemap / get_all_urls
    fpc,                \* position: "probe", "robots", "lines", "returned", "end"
    pathIdx,            \* index into sitemap_paths
    lineQueue,          \* the lines of robots.txt not yet scanned
    found,              \* what find_sitemap returns
    outcome,            \* get_all_urls: "pending", "ValueError", "parse_sitemap"
    flog,               \* history of the responses served to find_sitemap
    \* main
    mpc,                \* position: "scrape", "links", "skip", "dups", "warn", "done"
    idx,                \* index of the loop over results
    skip_links,         \* args.skip_links
    results,            \* the list of page results
    duplicate_titles,
    duplicate_descriptions,
    mlog                \* history of what the scraper and the validator returned

parseVars == <<ppc, callArg, stack, all_urls, visited_sitemaps, urls_result, hist>>

findVars == <<fpc, pathIdx, lineQueue, found, outcome, flog>>

mainVars == <<mpc, idx, skip_links, results, duplicate_titles,
              duplicate_descriptions, mlog>>

vars == <<ppc, callArg, stack, all_urls, visited_sitemaps, urls_result, hist,
          fpc, pathIdx, lineQueue, found, outcome, flog,
          mpc, idx, skip_links, results, duplicate_titles,
          duplicate_descriptions, mlog>>

---------------------------------------------------------------------------
(* Bounds *)

\* The most <sitemap> and <url> children one served document has.
MaxElems == 2

\* The most lines a served robots.txt has.
MaxLines == 2

\* The number of URLs main analyses.
NumPages == 2

\* The longest list of results detect_duplicates is applied to on its own.
MaxResults == 3

---------------------------------------------------------------------------
(* Strings *)

Whitespace == {" "}

RECURSIVE LStrip(_)
LStrip(t) ==
    IF t # <<>> /\ Head(t) \in Whitespace THEN LStrip(Tail(t)) ELSE t

RECURSIVE RStrip(_)
RStrip(t) ==
    IF t # <<>> /\ t[Len(t)] \in Whitespace
    THEN RStrip(SubSeq(t, 1, Len(t) - 1))
    ELSE t

\* str.strip()
Strip(t) == RStrip(LStrip(t))

\* ord() of the characters used
CharOrd(c) ==
    CASE c = " " -> 32
      [] c = "a" -> 97
      [] c = "b" -> 98
      [] c = "r" -> 114
      [] c = "s" -> 115
      [] c = "t" -> 116

\* str.__lt__: lexicographic by code point
RECURSIVE StrLess(_, _)
StrLess(x, y) ==
    IF y = <<>> THEN FALSE
    ELSE IF x = <<>> THEN TRUE
    ELSE IF Head(x) = Head(y) THEN StrLess(Tail(x), Tail(y))
    ELSE CharOrd(Head(x)) < CharOrd(Head(y))

\* sorted(list(urls)) of a set of strings
RECURSIVE SortedList(_)
SortedList(s) ==
    IF s = {} THEN <<>>
    ELSE LET m == CHOOSE x \in s : \A y \in s \ {x} : StrLess(x, y)
         IN  <<m>> \o SortedList(s \ {m})

SeqsUpTo(X, n) == UNION {[1..k -> X] : k \in 0..n}

Range(f) == {f[i] : i \in DOMAIN f}

---------------------------------------------------------------------------
(* The documents session.get can serve *)

R == <<"r">>
S == <<"s">>
T == <<"t">>
A == <<"a">>

\* A <sitemap> or <url> child of the root: whether it has a <loc> child, and
\* that child's text (<<>> when ElementTree gives None).
Elem(hasLoc, text) == [loc |-> hasLoc, text |-> text]

SitemapElems ==
    {Elem(FALSE, <<>>), Elem(TRUE, R), Elem(TRUE, S), Elem(TRUE, <<" ", "t", " ">>)}

UrlElems ==
    {Elem(TRUE, <<>>), Elem(TRUE, A), Elem(TRUE, <<" ", "a">>), Elem(TRUE, S)}

Roots == {"urlset", "sitemapindex"}

ChildLists ==
    {c \in SeqsUpTo(SitemapElems, MaxElems) \X SeqsUpTo(UrlElems, MaxElems) :
        Len(c[1]) + Len(c[2]) <= MaxElems}

\* A parsed response: the root's tag, whether the root has a child element
\* sitemapindex, and its <sitemap> and <url> children in document order.
OkDocs ==
    {[outcome |-> "ok", root |-> r, hasIndex |-> h, sitemaps |-> c[1], urls |-> c[2]] :
        r \in Roots, h \in BOOLEAN, c \in ChildLists}

\* What session.get, raise_for_status and ET.fromstring can raise.
FailKinds == {"RequestException", "ParseError", "Exception"}

FailDocs ==
    {[outcome |-> k, root |-> "none", hasIndex |-> FALSE, sitemaps |-> <<>>, urls |-> <<>>] :
        k \in FailKinds}

---------------------------------------------------------------------------
(* SitemapParser.parse_sitemap *)

\* loc_elem is not None and loc_elem.text
HasLoc(e) == e.loc /\ e.text # <<>>

\* root.find('sitemap:sitemapindex', namespace) is not None
IsIndex(doc) == doc.hasIndex

\* faulty variant: the leaf branch taking every <loc> of the document
LeafUrlsAnyLoc(doc) ==
    {Strip(e.text) : e \in {x \in Range(doc.urls) \cup Range(doc.sitemaps) : HasLoc(x)}}

\* the leaf branch: every <url><loc> text, stripped
LeafUrls(doc) == {Strip(e.text) : e \in {x \in Range(doc.urls) : HasLoc(x)}}

\* the index branch: the <sitemap> elements iterated
IndexChildren(doc) == doc.sitemaps

\* faulty variant: only the first except clause
CaughtRequestOnly(kind) == kind = "RequestException"

\* the except clauses of parse_sitemap_recursive
Caught(kind) ==
    \/ kind = "RequestException"
    \/ kind = "ParseError"
    \/ kind = "Exception"

\* faulty variant: no visited check
VisitedNever(url) == FALSE

\* url in visited_sitemaps
Visited(url) == url \in visited_sitemaps

\* where a returning parse_sitemap_recursive continues
ReturnPc(stk) == IF stk = <<>> THEN "sort" ELSE "loop"

PtrVals(doc) == {Strip(e.text) : e \in {x \in Range(doc.sitemaps) : HasLoc(x)}}
UrlTexts(doc) == {e.text : e \in {x \in Range(doc.urls) : HasLoc(x)}}

\* the history after `doc` was served for callArg
Served(doc, asKind) ==
    [hist EXCEPT
        !.fetchLog = Append(@, callArg),
        !.failed = IF asKind = "failed" THEN @ \cup {callArg} ELSE @,
        !.entryRoot = IF hist.fetchLog = <<>> THEN doc.root ELSE @,
        !.entryPtrs = IF hist.fetchLog = <<>> THEN PtrVals(doc) ELSE @,
        !.idxPtrs = IF asKind = "index" THEN @ \cup PtrVals(doc) ELSE @,
        !.leafTexts = IF asKind = "leaf" THEN @ \cup UrlTexts(doc) ELSE @]

ParseIdle ==
    /\ ppc = "idle"
    /\ callArg = <<>>
    /\ stack = <<>>
    /\ all_urls = {}
    /\ visited_sitemaps = {}
    /\ urls_result = <<>>
    /\ hist = [fetchLog |-> <<>>]

FindIdle ==
    /\ fpc = "idle"
    /\ pathIdx = 1
    /\ lineQueue = <<>>
    /\ found = [isNone |-> TRUE, url |-> <<>>]
    /\ outcome = "pending"
    /\ flog = [probes |-> <<>>]

MainIdle ==
    /\ mpc = "idle"
    /\ idx = 1
    /\ skip_links = FALSE
    /\ results = <<>>
    /\ duplicate_titles = <<>>
    /\ duplicate_descriptions = <<>>
    /\ mlog = [scraped |-> <<>>]

InitParse ==
    /\ FindIdle
    /\ MainIdle
    /\ ppc = "call"
    /\ callArg = R
    /\ stack = <<>>
    /\ all_urls = {}
    /\ visited_sitemaps = {}
    /\ urls_result = <<>>
    /\ hist = [fetchLog |-> <<>>, revisits |-> {}, failed |-> {},
               entryRoot |-> "none", entryPtrs |-> {}, idxPtrs |-> {},
               leafTexts |-> {}]

\* if url in visited_sitemaps: return
AlreadyVisited ==
    /\ UNCHANGED <<findVars, mainVars>>
    /\ ppc = "call"
    /\ Visited(callArg)
    /\ ppc' = ReturnPc(stack)
    /\ hist' = [hist EXCEPT !.revisits = @ \cup {callArg}]
    /\ UNCHANGED <<callArg, stack, all_urls, visited_sitemaps, urls_result>>

\* the fetch or the parse raises
FetchFails ==
    /\ UNCHANGED <<findVars, mainVars>>
    /\ ppc = "call"
    /\ ~Visited(callArg)
    /\ visited_sitemaps' = visited_sitemaps \cup {callArg}
    /\ \E doc \in FailDocs :
        /\ hist' = Served(doc, "failed")
        /\ IF Caught(doc.outcome)
           THEN ppc' = ReturnPc(stack) /\ stack' = stack
           ELSE ppc' = "crashed" /\ stack' = <<>>
    /\ UNCHANGED <<callArg, all_urls, urls_result>>

\* the document is taken for a sitemap index: iterate its <sitemap> children
FetchIndex ==
    /\ UNCHANGED <<findVars, mainVars>>
    /\ ppc = "call"
    /\ ~Visited(callArg)
    /\ visited_sitemaps' = visited_sitemaps \cup {callArg}
    /\ \E doc \in OkDocs :
        /\ IsIndex(doc)
        /\ hist' = Served(doc, "index")
        /\ stack' = Append(stack, [url |-> callArg, pending |-> IndexChildren(doc)])
    /\ ppc' = "loop"
    /\ UNCHANGED <<callArg, all_urls, urls_result>>

\* the document is taken for a plain sitemap: add its <url><loc> texts
FetchLeaf ==
    /\ UNCHANGED <<findVars, mainVars>>
    /\ ppc = "call"
    /\ ~Visited(callArg)
    /\ visited_sitemaps' = visited_sitemaps \cup {callArg}
    /\ \E doc \in OkDocs :
        /\ ~IsIndex(doc)
        /\ hist' = Served(doc, "leaf")
        /\ all_urls' = all_urls \cup LeafUrls(doc)
    /\ ppc' = ReturnPc(stack)
    /\ UNCHANGED <<callArg, stack, urls_result>>

\* one iteration of the index loop
LoopNext ==
    /\ UNCHANGED <<findVars, mainVars>>
    /\ ppc = "loop"
    /\ stack[Len(stack)].pending # <<>>
    /\ LET top == stack[Len(stack)]
           e == Head(top.pending)
       IN  /\ stack' = [stack EXCEPT ![Len(stack)].pending = Tail(@)]
           /\ IF HasLoc(e)
              THEN callArg' = Strip(e.text) /\ ppc' = "call"
              ELSE callArg' = callArg /\ ppc' = "loop"
    /\ UNCHANGED <<all_urls, visited_sitemaps, urls_result, hist>>

\* the index loop ends and the call returns
LoopEnd ==
    /\ UNCHANGED <<findVars, mainVars>>
    /\ ppc = "loop"
    /\ stack[Len(stack)].pending = <<>>
    /\ stack' = SubSeq(stack, 1, Len(stack) - 1)
    /\ ppc' = ReturnPc(stack')
    /\ UNCHANGED <<callArg, all_urls, visited_sitemaps, urls_result, hist>>

\* get_all_urls: return sorted(list(urls))
SortUrls ==
    /\ UNCHANGED <<findVars, mainVars>>
    /\ ppc = "sort"
    /\ urls_result' = SortedList(all_urls)
    /\ ppc' = "done"
    /\ UNCHANGED <<callArg, stack, all_urls, visited_sitemaps, hist>>

NextParse ==
    \/ AlreadyVisited
    \/ FetchFails
    \/ FetchIndex
    \/ FetchLeaf
    \/ LoopNext
    \/ LoopEnd
    \/ SortUrls

SpecParse == InitParse /\ [][NextParse]_vars

\* The resolver is one sequential thread: a step that can be taken is taken.
FairSpecParse == SpecParse /\ WF_vars(NextParse)

---------------------------------------------------------------------------
(* Claims about parse_sitemap / get_all_urls *)

NoDuplicates(q) == \A i, j \in DOMAIN q : i # j => q[i] # q[j]

\* C1: started on a document whose root element is sitemapindex, the resolver
\* recurses into every child <sitemap><loc> URL and returns the union of the
\* <url><loc> values of the leaf sitemaps reached.
C1_IndexRootExpanded ==
    (ppc = "done" /\ hist.entryRoot = "sitemapindex") =>
        /\ hist.entryPtrs \subseteq visited_sitemaps
        /\ Range(urls_result) = {Strip(t) : t \in hist.leafTexts}

\* C2: parse_sitemap terminates, and session.get is called at most once for
\* each distinct sitemap URL, also when an index lists a child twice or a
\* child points back to an ancestor or to itself.
C2_TerminatesFetchingOnce ==
    /\ [](NoDuplicates(hist.fetchLog))
    /\ <>(ppc = "done")

\* C2 witness: a run that ended after the entry sitemap and a second sitemap
\* were both referenced again (duplicate entry, back reference).
C2_Witness ==
    /\ ppc = "done"
    /\ hist.revisits = {R, S}
    /\ Len(hist.fetchLog) = 3

\* C3: the returned sequence has no duplicate entries, and every entry is the
\* text (stripped of surrounding whitespace, as the resolver stores it) of a
\* <url><loc> of a sitemap processed as a leaf; so a URL that occurs only as
\* a <sitemap><loc> pointer of an index is not in the result.
C3_OnlyLeafLocs ==
    ppc = "done" =>
        /\ NoDuplicates(urls_result)
        /\ \A i \in DOMAIN urls_result :
              \E t \in hist.leafTexts : urls_result[i] = Strip(t)
        /\ \A p \in hist.idxPtrs :
              p \notin {Strip(t) : t \in hist.leafTexts} => p \notin Range(urls_result)

\* C3 witness: two entries returned, one of them from a padded text, while a
\* pointer URL that is no <url><loc> value was seen.
C3_Witness ==
    /\ ppc = "done"
    /\ Len(urls_result) = 2
    /\ <<" ", "a">> \in hist.leafTexts
    /\ hist.idxPtrs \ Range(urls_result) # {}

\* C9: a failing sitemap never propagates out of parse_sitemap, adds no URL,
\* keeps the accumulated URLs and leaves its parent's loop running: every
\* child of every expanded index is visited by the end.
C9_FailureIsolated ==
    /\ [](ppc # "crashed")
    /\ [](ppc = "done" => hist.idxPtrs \subseteq visited_sitemaps)
    /\ [][hist'.failed # hist.failed =>
            /\ all_urls' = all_urls
            /\ stack' = stack
            /\ ppc' = ReturnPc(stack)]_vars

\* C9 witness: in the entry index the first child failed, the second was
\* fetched after it and its URLs were returned.
C9_Witness ==
    /\ ppc = "done"
    /\ Len(hist.fetchLog) = 3
    /\ hist.failed = {hist.fetchLog[2]}
    /\ {hist.fetchLog[2], hist.fetchLog[3]} \subseteq hist.entryPtrs
    /\ hist.fetchLog[3] \notin hist.failed
    /\ urls_result # <<>>

---------------------------------------------------------------------------
(* SitemapParser.find_sitemap *)

\* A URL and a line of robots.txt are sequences of tokens: words, ":" and " ".

\* self.base_url
Base == <<"http", ":", "//h", "/shop">>

sitemap_paths == <<"/sitemap.xml", "/sitemap_index.xml", "/sitemap1.xml">>

\* urljoin(base, path) for a path starting with "/": scheme and host of the
\* base, then the path
UrlJoin(base, path) == SubSeq(base, 1, 3) \o <<path>>

\* str.lower() of the words used
Lower(w) ==
    CASE w = "TEXT/XML" -> "text/xml"
      [] w = "Sitemap" -> "sitemap"
      [] w = "Disallow" -> "disallow"
      [] OTHER -> w

LowerLine(line) == [i \in DOMAIN line |-> Lower(line[i])]

\* 'xml' in content_type
ContainsXml(ct) == ct \in {"application/xml", "text/xml"}

Response(status, ctype, url) ==
    [kind |-> "response", status |-> status, ctype |-> ctype, url |-> url]

\* session.head / session.get raising requests.RequestException
Raised == [kind |-> "RequestException", status |-> 0, ctype |-> "", url |-> <<>>]

Redirected == <<"http", ":", "//h", "/sitemaps/index.xml">>

\* what session.head(url, allow_redirects=True) can give; ctype "" is a
\* response without a Content-Type header
HeadResponses(url) ==
    {Raised,
     Response(200, "application/xml", url),
     Response(200, "application/xml", Redirected),
     Response(200, "TEXT/XML", url),
     Response(200, "text/html", url),
     Response(200, "", url),
     Response(404, "text/xml", url)}

\* what session.head(sitemap_url) can give for a robots.txt entry; an empty
\* URL raises MissingSchema, a RequestException
TestResponses(url) ==
    IF url = <<>> THEN {Raised}
    ELSE {Raised, Response(200, "text/html", url), Response(404, "text/html", url)}

UrlA == <<"http", ":", "//h", "/a.xml">>
UrlB == <<"http", ":", "//h", "/b.xml">>

RobotsLines ==
    {<<"Sitemap", ":", " ">> \o UrlA,
     <<" ", "sitemap", ":">> \o UrlB \o <<" ">>,
     <<"Sitemap", ":">>,
     <<"Disallow", ":", " ", "/">>}

\* what session.get(robots_url) can give, its text already split into lines
RobotsResponses ==
    {[kind |-> "RequestException", status |-> 0, lines |-> <<>>],
     [kind |-> "response", status |-> 404, lines |-> <<>>]}
    \cup {[kind |-> "response", status |-> 200, lines |-> l] :
            l \in SeqsUpTo(RobotsLines, MaxLines)}

\* faulty variant: the probe accepting any 200 response
QualifiesAnyType(resp) == resp.kind = "response" /\ resp.status = 200

\* response.status_code == 200 and 'xml' in content_type
Qualifies(resp) ==
    /\ resp.kind = "response"
    /\ resp.status = 200
    /\ ContainsXml(Lower(resp.ctype))

\* line.lower().startswith('sitemap:')
IsSitemapLine(line) ==
    /\ Len(line) >= 2
    /\ LowerLine(line)[1] = "sitemap"
    /\ LowerLine(line)[2] = ":"

\* line.split(':', 1)[1] of a line that holds a ":"
RECURSIVE AfterFirstColon(_)
AfterFirstColon(line) ==
    IF Head(line) = ":" THEN Tail(line) ELSE AfterFirstColon(Tail(line))

Url(u) == [isNone |-> FALSE, url |-> u]
None == [isNone |-> TRUE, url |-> <<>>]

InitFind ==
    /\ ParseIdle
    /\ MainIdle
    /\ fpc = "probe"
    /\ pathIdx = 1
    /\ lineQueue = <<>>
    /\ found = None
    /\ outcome = "pending"
    /\ flog = [probes |-> <<>>, robots |-> <<>>, tests |-> <<>>]

\* one iteration of the loop over sitemap_paths
ProbePath ==
    /\ fpc = "probe"
    /\ LET url == UrlJoin(Base, sitemap_paths[pathIdx])
       IN  \E resp \in HeadResponses(url) :
            /\ flog' = [flog EXCEPT !.probes = Append(@, [url |-> url, resp |-> resp])]
            /\ IF Qualifies(resp)
               THEN /\ found' = Url(resp.url)
                    /\ fpc' = "returned"
                    /\ pathIdx' = pathIdx
               ELSE /\ found' = found
                    /\ fpc' = IF pathIdx = Len(sitemap_paths) THEN "robots" ELSE "probe"
                    /\ pathIdx' = IF pathIdx = Len(sitemap_paths) THEN pathIdx ELSE pathIdx + 1
    /\ UNCHANGED <<lineQueue, outcome>>
    /\ UNCHANGED <<parseVars, mainVars>>

\* session.get(robots_url)
FetchRobots ==
    /\ fpc = "robots"
    /\ \E resp \in RobotsResponses :
        /\ flog' = [flog EXCEPT !.robots = Append(@, resp)]
        /\ IF resp.kind = "response" /\ resp.status = 200
           THEN lineQueue' = resp.lines /\ fpc' = "lines"
           ELSE lineQueue' = lineQueue /\ fpc' = "returned"
    /\ UNCHANGED <<pathIdx, found, outcome>>
    /\ UNCHANGED <<parseVars, mainVars>>

\* one iteration of the loop over the lines of robots.txt
ScanLine ==
    /\ fpc = "lines"
    /\ lineQueue # <<>>
    /\ lineQueue' = Tail(lineQueue)
    /\ LET line == Strip(Head(lineQueue))
       IN  IF IsSitemapLine(line)
           THEN LET sitemap_url == Strip(AfterFirstColon(line))
                IN  \E resp \in TestResponses(sitemap_url) :
                     /\ flog' = [flog EXCEPT
                                  !.tests = Append(@, [url |-> sitemap_url, resp |-> resp])]
                     /\ IF resp.kind = "response" /\ resp.status = 200
                        THEN found' = Url(sitemap_url) /\ fpc' = "returned"
                        ELSE found' = found /\ fpc' = "lines"
           ELSE UNCHANGED <<flog, found, fpc>>
    /\ UNCHANGED <<pathIdx, outcome>>
    /\ UNCHANGED <<parseVars, mainVars>>

\* no line is left: return None
ScanEnd ==
    /\ fpc = "lines"
    /\ lineQueue = <<>>
    /\ fpc' = "returned"
    /\ UNCHANGED <<pathIdx, lineQueue, found, outcome, flog>>
    /\ UNCHANGED <<parseVars, mainVars>>

\* get_all_urls: if not sitemap_url: raise ValueError
GetAllUrls ==
    /\ fpc = "returned"
    /\ outcome' = IF found.isNone \/ found.url = <<>> THEN "ValueError" ELSE "parse_sitemap"
    /\ fpc' = "end"
    /\ UNCHANGED <<pathIdx, lineQueue, found, flog>>
    /\ UNCHANGED <<parseVars, mainVars>>

NextFind ==
    \/ ProbePath
    \/ FetchRobots
    \/ ScanLine
    \/ ScanEnd
    \/ GetAllUrls

SpecFind == InitFind /\ [][NextFind]_vars

---------------------------------------------------------------------------
(* main: scraping, link validation, duplicate detection *)

\* Python's None among strings
NoneStr == "<None>"

\* truth value of an optional string
Truthy(x) == x \notin {NoneStr, ""}

Statuses == {"ok", "warning", "error"}

Rank(status) ==
    CASE status = "ok" -> 0
      [] status = "warning" -> 1
      [] status = "error" -> 2

\* An entry of result['issues']: what it reports, and the count or the value
\* its text carries.
Issue(kind, count, text) == [kind |-> kind, count |-> count, text |-> text]

Titles == {"", "T"}
Descriptions == {NoneStr, "D"}

\* SEOScraper.scrape_url(url): a failed fetch gives error and status 'error'
\* and no extracted attribute; broken_links_count is not set yet (<<>>).
ScrapeResults(url) ==
    {[url |-> url, title |-> NoneStr, meta_description |-> NoneStr,
      status |-> "error", error |-> "fetch failed",
      issues |-> <<Issue("fetch", 0, "")>>,
      broken_links_count |-> <<>>, broken_links_detail |-> <<>>]}
    \cup
    {[url |-> url, title |-> t, meta_description |-> d,
      status |-> st, error |-> NoneStr,
      issues |-> IF st = "ok" THEN <<>> ELSE <<Issue("seo", 0, "")>>,
      broken_links_count |-> <<>>, broken_links_detail |-> <<>>] :
        t \in Titles, d \in Descriptions, st \in Statuses}

BrokenCounts == {0, 1, 5, 6, 7}

\* LinkValidator.validate_page_links(html, url): the broken targets found
LinkValidations ==
    {[total_broken |-> n,
      broken_links |-> [i \in 1..(n - (IF n > 0 THEN 1 ELSE 0)) |-> i],
      broken_images |-> [i \in 1..(IF n > 0 THEN 1 ELSE 0) |-> i]] :
        n \in BrokenCounts}

\* faulty variant: a value counts as duplicate from its first occurrence
IsDuplicateFromOne(count) == count >= 1

\* count > 1
IsDuplicate(count) == count > 1

\* Counter(values): the distinct values in order of first occurrence
RECURSIVE CounterKeys(_)
CounterKeys(values) ==
    IF values = <<>> THEN <<>>
    ELSE LET rest == CounterKeys(SubSeq(values, 1, Len(values) - 1))
             last == values[Len(values)]
         IN  IF last \in Range(rest) THEN rest ELSE Append(rest, last)

\* Counter(values)[v]
RECURSIVE CounterCount(_, _)
CounterCount(values, v) ==
    IF values = <<>> THEN 0
    ELSE (IF Head(values) = v THEN 1 ELSE 0) + CounterCount(Tail(values), v)

\* [v for v, count in Counter(values).items() if count > 1]
DuplicatesOf(values) ==
    SelectSeq(CounterKeys(values), LAMBDA v : IsDuplicate(CounterCount(values, v)))

\* the truthy values of one field, in result order
RECURSIVE FieldValues(_, _)
FieldValues(rs, field) ==
    IF rs = <<>> THEN <<>>
    ELSE (IF Truthy(Head(rs)[field]) THEN <<Head(rs)[field]>> ELSE <<>>)
         \o FieldValues(Tail(rs), field)

\* detect_duplicates(results)
detect_duplicates(rs) ==
    <<DuplicatesOf(FieldValues(rs, "title")),
      DuplicatesOf(FieldValues(rs, "meta_description"))>>

\* faulty variant: the duplicate warning overwriting the status
EscalateDupAlways(status) == "warning"

\* if result['status'] == 'ok': result['status'] = 'warning'
EscalateDup(status) == IF status = "ok" THEN "warning" ELSE status

\* faulty variant: no forced error above five broken targets
StatusAfterBrokenNoForce(status, n) ==
    IF n > 0 /\ status = "ok" THEN "warning" ELSE status

\* the status after total_broken = n was reported
StatusAfterBroken(status, n) ==
    IF n > 0
    THEN LET s1 == IF status = "ok" THEN "warning" ELSE status
         IN  IF n > 5 THEN "error" ELSE s1
    ELSE status

\* faulty variant: the link stage running whatever the flag says
RunLinkStageAlways(skip) == TRUE

\* if not args.skip_links
RunLinkStage(skip) == ~skip

\* faulty variant: pages with an error validated like the others
SkipsPageNever(result) == FALSE

\* if result.get('error'): continue
SkipsPage(result) == Truthy(result.error)

\* the position after the loop over results[idx] moved on
AfterLinks(i) == IF i = Len(results) THEN "dups" ELSE "links"

Init ==
    /\ ParseIdle
    /\ FindIdle
    /\ mpc = "scrape"
    /\ idx = 1
    /\ skip_links \in BOOLEAN
    /\ results = <<>>
    /\ duplicate_titles = <<>>
    /\ duplicate_descriptions = <<>>
    /\ mlog = [scraped |-> <<>>, link |-> <<>>, fetch_page |-> 0, validate |-> 0]

\* result = seo_scraper.scrape_url(url_item); results.append(result)
ScrapeUrl ==
    /\ mpc = "scrape"
    /\ \E r \in ScrapeResults(Len(results) + 1) :
        /\ results' = Append(results, r)
        /\ mlog' = [mlog EXCEPT !.scraped = Append(@, r)]
    /\ mpc' = IF Len(results') < NumPages THEN "scrape"
              ELSE IF RunLinkStage(skip_links) THEN "links" ELSE "skip"
    /\ UNCHANGED <<idx, skip_links, duplicate_titles, duplicate_descriptions>>
    /\ UNCHANGED <<parseVars, findVars>>

\* link stage: the page has an error
LinkSkipError ==
    /\ mpc = "links"
    /\ SkipsPage(results[idx])
    /\ mlog' = [mlog EXCEPT !.link = Append(@, [step |-> "error", total |-> 0])]
    /\ mpc' = AfterLinks(idx)
    /\ idx' = IF idx = Len(results) THEN 1 ELSE idx + 1
    /\ UNCHANGED <<skip_links, results, duplicate_titles, duplicate_descriptions>>
    /\ UNCHANGED <<parseVars, findVars>>

\* link stage: fetch_page returns no document
LinkNoSoup ==
    /\ mpc = "links"
    /\ ~SkipsPage(results[idx])
    /\ mlog' = [mlog EXCEPT !.link = Append(@, [step |-> "no_soup", total |-> 0]),
                            !.fetch_page = @ + 1]
    /\ mpc' = AfterLinks(idx)
    /\ idx' = IF idx = Len(results) THEN 1 ELSE idx + 1
    /\ UNCHANGED <<skip_links, results, duplicate_titles, duplicate_descriptions>>
    /\ UNCHANGED <<parseVars, findVars>>

\* link stage: the page is validated and its record updated
LinkValidate ==
    /\ mpc = "links"
    /\ ~SkipsPage(results[idx])
    /\ \E link_validation \in LinkValidations :
        LET n == link_validation.total_broken
            r == results[idx]
        IN  /\ results' = [results EXCEPT ![idx] =
                  [r EXCEPT
                     !.broken_links_count = <<n>>,
                     !.broken_links_detail =
                        <<[broken_links |-> link_validation.broken_links,
                           broken_images |-> link_validation.broken_images]>>,
                     !.issues = IF n > 0 THEN Append(@, Issue("broken", n, "")) ELSE @,
                     !.status = StatusAfterBroken(@, n)]]
            /\ mlog' = [mlog EXCEPT
                          !.link = Append(@, [step |-> "validated", total |-> n]),
                          !.fetch_page = @ + 1,
                          !.validate = @ + 1]
    /\ mpc' = AfterLinks(idx)
    /\ idx' = IF idx = Len(results) THEN 1 ELSE idx + 1
    /\ UNCHANGED <<skip_links, duplicate_titles, duplicate_descriptions>>
    /\ UNCHANGED <<parseVars, findVars>>

\* --skip-links: result['broken_links_count'] = 0
SkipLinks ==
    /\ mpc = "skip"
    /\ results' = [results EXCEPT ![idx].broken_links_count = <<0>>]
    /\ mpc' = IF idx = Len(results) THEN "dups" ELSE "skip"
    /\ idx' = IF idx = Len(results) THEN 1 ELSE idx + 1
    /\ UNCHANGED <<skip_links, duplicate_titles, duplicate_descriptions, mlog>>
    /\ UNCHANGED <<parseVars, findVars>>

\* duplicate_titles, duplicate_descriptions = detect_duplicates(results)
DetectDuplicates ==
    /\ mpc = "dups"
    /\ duplicate_titles' = detect_duplicates(results)[1]
    /\ duplicate_descriptions' = detect_duplicates(results)[2]
    /\ mpc' = IF results = <<>> THEN "done" ELSE "warn"
    /\ UNCHANGED <<idx, skip_links, results, mlog>>
    /\ UNCHANGED <<parseVars, findVars>>

\* one iteration of add_duplicate_warnings
AddDuplicateWarning ==
    /\ mpc = "warn"
    /\ LET r == results[idx]
           dupTitle == r.title \in Range(duplicate_titles)
           dupDesc == r.meta_description \in Range(duplicate_descriptions)
           i1 == IF dupTitle THEN Append(r.issues, Issue("dup_title", 0, r.title))
                 ELSE r.issues
           s1 == IF dupTitle THEN EscalateDup(r.status) ELSE r.status
           i2 == IF dupDesc THEN Append(i1, Issue("dup_description", 0, r.meta_description))
                 ELSE i1
           s2 == IF dupDesc THEN EscalateDup(s1) ELSE s1
       IN  results' = [results EXCEPT ![idx] = [r EXCEPT !.issues = i2, !.status = s2]]
    /\ mpc' = IF idx = Len(results) THEN "done" ELSE "warn"
    /\ idx' = IF idx = Len(results) THEN 1 ELSE idx + 1
    /\ UNCHANGED <<skip_links, duplicate_titles, duplicate_descriptions, mlog>>
    /\ UNCHANGED <<parseVars, findVars>>

Next ==
    \/ ScrapeUrl
    \/ LinkSkipError
    \/ LinkNoSoup
    \/ LinkValidate
    \/ SkipLinks
    \/ DetectDuplicates
    \/ AddDuplicateWarning

Spec == Init /\ [][Next]_vars

\* detect_duplicates and add_duplicate_warnings on any list of results
DupTitles == {NoneStr, "", "T", "U"}
DupDescriptions == {NoneStr, "", "D"}

DupResults ==
    {[url |-> 0, title |-> t, meta_description |-> d,
      status |-> "ok", error |-> NoneStr, issues |-> <<>>,
      broken_links_count |-> <<0>>, broken_links_detail |-> <<>>] :
        t \in DupTitles, d \in DupDescriptions}

InitDup ==
    /\ ParseIdle
    /\ FindIdle
    /\ mpc = "dups"
    /\ idx = 1
    /\ skip_links = TRUE
    /\ results \in SeqsUpTo(DupResults, MaxResults)
    /\ duplicate_titles = <<>>
    /\ duplicate_descriptions = <<>>
    /\ mlog = [scraped |-> results, link |-> <<>>, fetch_page |-> 0, validate |-> 0]

NextDup ==
    \/ DetectDuplicates
    \/ AddDuplicateWarning

SpecDup == InitDup /\ [][NextDup]_vars

---------------------------------------------------------------------------
(* Claims about find_sitemap *)

Candidates ==
    <<<<"http", ":", "//h", "/sitemap.xml">>,
      <<"http", ":", "//h", "/sitemap_index.xml">>,
      <<"http", ":", "//h", "/sitemap1.xml">>>>

\* a check that succeeds with a content type containing "xml" (in any case)
Accepted(resp) ==
    /\ resp.kind = "response"
    /\ resp.status = 200
    /\ resp.ctype \in {"application/xml", "TEXT/XML"}

Exists(resp) == resp.kind = "response" /\ resp.status = 200

\* the Sitemap: URL a line of robots.txt declares, if any
DeclaredUrl(line) ==
    CASE line = <<"Sitemap", ":", " ", "http", ":", "//h", "/a.xml">> ->
            <<<<"http", ":", "//h", "/a.xml">>>>
      [] line = <<" ", "sitemap", ":", "http", ":", "//h", "/b.xml", " ">> ->
            <<<<"http", ":", "//h", "/b.xml">>>>
      [] line = <<"Sitemap", ":">> -> <<<<>>>>
      [] OTHER -> <<>>

RECURSIVE DeclaredUrls(_)
DeclaredUrls(lines) ==
    IF lines = <<>> THEN <<>>
    ELSE DeclaredUrl(Head(lines)) \o DeclaredUrls(Tail(lines))

---------------------------------------------------------------------------
(* Claims about main *)

BrokenIssues(issues) == {i \in DOMAIN issues : issues[i].kind = "broken"}

\* C4: no step of the link stage or of add_duplicate_warnings lowers a page's
\* status, and every status is one of ok, warning, error.
C4_StatusMonotonic ==
    /\ [](\A i \in DOMAIN results : results[i].status \in Statuses)
    /\ [][\A i \in DOMAIN results :
            Rank(results'[i].status) >= Rank(results[i].status)]_vars

\* C4 witness: at the end one page scraped as ok is error, and one page
\* scraped as error has received a duplicate warning.
C4_Witness ==
    /\ mpc = "done"
    /\ \E i \in DOMAIN results :
        mlog.scraped[i].status = "ok" /\ results[i].status = "error"
    /\ \E i \in DOMAIN results :
        /\ mlog.scraped[i].status = "error"
        /\ \E k \in DOMAIN results[i].issues : results[i].issues[k].kind = "dup_title"

\* C5: for a page whose validation reported total_broken = n:
\* broken_links_count = n; n > 0 appends one issue carrying n and makes the
\* status at least warning; n > 5 makes it error, to the end of the run; n = 0
\* leaves status and issues to the link stage as scraped.
C5_BrokenLinkPolicy ==
    \A i \in DOMAIN mlog.link :
        mlog.link[i].step = "validated" =>
            LET n == mlog.link[i].total
                r == results[i]
                before == mlog.scraped[i]
            IN  /\ r.broken_links_count = <<n>>
                /\ n > 0 =>
                    /\ Len(r.issues) > Len(before.issues)
                    /\ SubSeq(r.issues, 1, Len(before.issues) + 1)
                         = Append(before.issues, Issue("broken", n, ""))
                    /\ Cardinality(BrokenIssues(r.issues)) = 1
                    /\ r.status \in {"warning", "error"}
                /\ n > 5 => r.status = "error"
                /\ n = 0 =>
                    /\ BrokenIssues(r.issues) = {}
                    /\ mpc \in {"links", "dups"} =>
                         r.status = before.status /\ r.issues = before.issues

\* C5 witness: a page scraped as ok with 7 broken targets, at the end of the
\* run, after it also received a duplicate warning.
C5_Witness ==
    /\ mpc = "done"
    /\ \E i \in DOMAIN mlog.link :
        /\ mlog.link[i] = [step |-> "validated", total |-> 7]
        /\ mlog.scraped[i].status = "ok"
        /\ results[i].status = "error"
        /\ results[i].broken_links_count = <<7>>
        /\ Len(results[i].issues) = 2

Occurrences(field, v) == Cardinality({i \in DOMAIN results : results[i][field] = v})

ExactlyTheRepeated(dups, field, values) ==
    /\ \A i, j \in DOMAIN dups : i # j => dups[i] # dups[j]
    /\ \A v \in values \cup Range(dups) :
        v \in Range(dups) <=> (v \notin {NoneStr, ""} /\ Occurrences(field, v) >= 2)

\* C6: detect_duplicates returns, for titles and for descriptions, exactly the
\* non-empty values that occur on more than one result, each once.
C6_ExactlyDuplicates ==
    mpc \in {"warn", "done"} =>
        /\ ExactlyTheRepeated(duplicate_titles, "title", DupTitles)
        /\ ExactlyTheRepeated(duplicate_descriptions, "meta_description", DupDescriptions)

\* C6 witness: a title on two results and another on one; an empty
\* description on two results and a missing title.
C6_Witness ==
    /\ mpc = "warn"
    /\ Len(results) = 3
    /\ duplicate_titles = <<"T">>
    /\ duplicate_descriptions = <<>>
    /\ Occurrences("meta_description", "") = 2
    /\ Occurrences("title", NoneStr) = 1

\* C7: with skip_links set, fetch_page and validate_page_links are never
\* called, and from the end of the skip loop on every result has
\* broken_links_count = 0.
C7_SkipLinks ==
    skip_links =>
        /\ mlog.fetch_page = 0
        /\ mlog.validate = 0
        /\ mlog.link = <<>>
        /\ mpc \in {"dups", "warn", "done"} =>
             /\ Len(results) = NumPages
             /\ \A i \in DOMAIN results : results[i].broken_links_count = <<0>>

\* C7 witness: a finished run with the flag set.
C7_Witness ==
    /\ skip_links
    /\ mpc = "done"
    /\ Len(results) = NumPages

\* C10: validate_page_links is called only for pages without error whose
\* re-fetch gave a document; a page with error, or without document, is left
\* as scraped by the link stage (an error page keeps status error to the end)
\* and the loop goes on to the next page.
C10_SkippedPagesUntouched ==
    /\ mlog.validate = Cardinality({i \in DOMAIN mlog.link : mlog.link[i].step = "validated"})
    /\ \A i \in DOMAIN mlog.link :
        LET r == results[i]
            before == mlog.scraped[i]
        IN  /\ mlog.link[i].step = "validated" => ~Truthy(before.error)
            /\ Truthy(before.error) => mlog.link[i].step = "error" /\ r.status = "error"
            /\ mlog.link[i].step # "validated" =>
                /\ r.broken_links_count = before.broken_links_count
                /\ r.broken_links_detail = before.broken_links_detail
                /\ BrokenIssues(r.issues) = {}
                /\ mpc \in {"links", "dups"} => r = before
    /\ (~skip_links /\ mpc \in {"dups", "warn", "done"}) => Len(mlog.link) = NumPages

\* C10 witness: the first page failed to fetch, the second page's re-fetch
\* gave no document, and the run went on to the end.
C10_Witness ==
    /\ mpc = "done"
    /\ Len(mlog.link) = NumPages
    /\ mlog.link[1].step = "error"
    /\ mlog.link[2].step = "no_soup"
    /\ results[1].status = "error"
    /\ results[2].broken_links_count = <<>>
====
